---- MODULE Spec2Model ----
(***************************************************************************)
(* Model of the botbuilder-js snapshot:                                    *)
(*   - Dialog / DialogTurnResult / DialogEndReason (dialog.ts 15-105) and  *)
(*     the dialog stack manager (DialogContext) that drives them;          *)
(*   - ConfirmPrompt (dialog.ts 174-240);                                  *)
(*   - ConversationUpdateBot (dialog.ts 256-315);                          *)
(*   - the Exists expression evaluator (part_000 57-65).                   *)
(* The four units share no state apart from the static Dialog.EndOfTurn,   *)
(* so every behaviour runs the operations of one unit; `unit` says which.  *)
(***************************************************************************)
EXTENDS Integers, Sequences, FiniteSets, TLC

VARIABLES
    unit,           \* the unit whose operations this behaviour runs
    EndOfTurn,      \* static Dialog.EndOfTurn (a mutable static field)
    \* ---- Exists evaluator
    args,           \* the argument list handed to Exists.func
    existsCalled,   \* TRUE once Exists.func has returned
    existsResult,   \* the boolean Exists.func returned
    \* ---- ConversationUpdateBot
    handler,        \* the registered handler being run, or "none"
    channelInfo,    \* ChannelInfo argument of the handler
    teamInfo,       \* TeamInfo argument of the handler
    members,        \* ChannelAccount[] argument (ids)
    botPc,          \* position inside the async handler
    botTrace,       \* what the handler did so far: sends and next() calls
    botError,       \* the error the handler raised, or "none"
    \* ---- ConfirmPrompt
    choices,        \* static ConfirmPrompt.choices: a reference to a table
    tables,         \* the heap of choice tables, by reference
    confirmPrompts, \* the ConfirmPrompt instances constructed so far
    promptCall,     \* the arguments of the last onPrompt / onRecognize call
    promptOut,      \* the prompts that call rendered, in order
    \* ---- dialog stack
    stack,          \* the DialogInstances of the conversation, top last
    turnResult,     \* the DialogTurnResult the last stack operation returned
    dcOp,           \* the last stack operation, with the stack it started from
    ended,          \* the dialogEnd notifications that operation delivered
    invoked,        \* the other dialog methods that operation invoked
    dcError         \* the error that operation raised, or "none"

existsVars == <<args, existsCalled, existsResult>>
botVars == <<handler, channelInfo, teamInfo, members, botPc, botTrace, botError>>
promptVars == <<choices, tables, confirmPrompts, promptCall, promptOut>>
dialogVars == <<stack, turnResult, dcOp, ended, invoked, dcError>>
vars == <<unit, EndOfTurn, existsVars, botVars, promptVars, dialogVars>>

\* what an operation of one unit leaves alone: no operation in the source
\* assigns Dialog.EndOfTurn or touches another unit's state
ExistsFrame == UNCHANGED <<unit, EndOfTurn, botVars, promptVars, dialogVars>>
BotFrame == UNCHANGED <<unit, EndOfTurn, existsVars, promptVars, dialogVars>>
PromptFrame == UNCHANGED <<unit, EndOfTurn, existsVars, botVars, dialogVars>>
DialogFrame == UNCHANGED <<unit, EndOfTurn, existsVars, botVars, promptVars>>

(***************************************************************************)
(* JavaScript values.  A value is written as its literal, so that values   *)
(* of different JavaScript types stay comparable.                          *)
(***************************************************************************)
Undefined == "undefined"
Null == "null"
JsValues == {Undefined, Null, "false", "true", "0", "1", "''", "'a'"}

\* ToBoolean: undefined, null, false, 0 and '' are the falsy values
Truthy(v) == v \notin {Undefined, Null, "false", "0", "''"}

TypeError == "TypeError"

---------------------------------------------------------------------------
(***************************************************************************)
(* Exists (part_000 57-65)                                                 *)
(***************************************************************************)
MaxArgs == 2

ArgLists == UNION {[1..n -> JsValues] : n \in 0..MaxArgs}

\* args[0] of a JavaScript array: undefined when the array is empty
ArgAt0(a) == IF Len(a) >= 1 THEN a[1] ELSE Undefined

ExistsFuncTruthy(a) == Truthy(ArgAt0(a))

\* Exists.func: args[0] !== undefined && args[0] !== null
ExistsFunc(a) == ArgAt0(a) # Undefined /\ ArgAt0(a) # Null

\* the expression engine evaluates Exists on the argument list
EvaluateExists ==
    /\ unit = "exists"
    /\ ~existsCalled
    /\ existsCalled' = TRUE
    /\ existsResult' = ExistsFunc(args)
    /\ UNCHANGED args
    /\ ExistsFrame

\* the engine moves on to another argument list
NextExpression ==
    /\ unit = "exists"
    /\ existsCalled
    /\ args' \in ArgLists
    /\ existsCalled' = FALSE
    /\ existsResult' = FALSE
    /\ ExistsFrame

---------------------------------------------------------------------------
(***************************************************************************)
(* ConversationUpdateBot (dialog.ts 256-315)                               *)
(***************************************************************************)
MaxMembers == 2

MemberIds == {"u1", "u2"}
MemberLists == UNION {[1..n -> MemberIds] : n \in 0..MaxMembers}

\* an object argument: absent (undefined or null) or an object with a name
NoObject(k) == [kind |-> k, name |-> ""]
Object(n) == [kind |-> "object", name |-> n]
Absent(o) == o.kind \in {Undefined, Null}

\* !o in JavaScript: an object is truthy, undefined and null are falsy
Not(o) == Absent(o)

\* o.name: reading a property of undefined or null throws a TypeError
NameOf(o) == IF Absent(o) THEN TypeError ELSE o.name

Handlers ==
    {"onMessage", "onTeamsChannelRenamedEvent", "onTeamsChannelCreatedEvent",
     "onTeamsChannelDeletedEvent", "onTeamsTeamRenamedEvent",
     "onTeamsMembersAddedEvent", "onTeamsMembersRemovedEvent"}

MemberHandlers == {"onTeamsMembersAddedEvent", "onTeamsMembersRemovedEvent"}

\* membersAdded.forEach(account => newMembers += account.id + ' ')
RECURSIVE JoinIds(_)
JoinIds(m) == IF m = <<>> THEN <<>> ELSE <<Head(m), " ">> \o JoinIds(Tail(m))

\* CardFactory.heroCard(title, text) wrapped by MessageFactory.attachment;
\* a template string is the sequence of its pieces, and evaluating it
\* throws when one of its pieces threw
HeroCard(title, text) ==
    IF \E i \in 1..Len(text) : text[i] = TypeError
    THEN [error |-> TypeError, title |-> "", text |-> <<>>]
    ELSE [error |-> "none", title |-> title, text |-> text]

NoActivity == [error |-> "none", title |-> "", text |-> <<>>]

\* line 262: 'You said ' + context.activity.text
OnMessage(text) == [error |-> "none", title |-> "", text |-> <<"You said ", text>>]

\* lines 267, 273, 279
OnTeamsChannelRenamedEvent(ch) ==
    HeroCard("Channel Renamed", <<NameOf(ch), " is the new Channel name">>)
OnTeamsChannelCreatedEvent(ch) ==
    HeroCard("Channel Created", <<NameOf(ch), " is the Channel created">>)
OnTeamsChannelDeletedEvent(ch) ==
    HeroCard("Channel Deleted", <<NameOf(ch), " is the Channel deleted">>)

\* line 285
OnTeamsTeamRenamedEvent(team) ==
    HeroCard("Team Renamed", <<NameOf(team), " is the new Team name">>)

\* lines 291-297: name = !teamInfo ? 'not in team' : teamInfo.name
OnTeamsMembersAddedEvent(m, team) ==
    LET name == IF Not(team) THEN "not in team" ELSE NameOf(team)
    IN  HeroCard("Account Added", JoinIds(m) \o <<" joined ", name, ".">>)

\* lines 303-309: name is computed as above, but the card text reads
\* teamInfo.name itself
OnTeamsMembersRemovedEvent(m, team) ==
    LET name == IF Not(team) THEN "not in team" ELSE NameOf(team)
    IN  HeroCard("Account Removed",
                 JoinIds(m) \o <<" removed from ", NameOf(team), ".">>)

\* the activity the running handler builds before it sends
BuiltActivity ==
    CASE handler = "onMessage" -> OnMessage("hi")
      [] handler = "onTeamsChannelRenamedEvent" -> OnTeamsChannelRenamedEvent(channelInfo)
      [] handler = "onTeamsChannelCreatedEvent" -> OnTeamsChannelCreatedEvent(channelInfo)
      [] handler = "onTeamsChannelDeletedEvent" -> OnTeamsChannelDeletedEvent(channelInfo)
      [] handler = "onTeamsTeamRenamedEvent" -> OnTeamsTeamRenamedEvent(teamInfo)
      [] handler = "onTeamsMembersAddedEvent" -> OnTeamsMembersAddedEvent(members, teamInfo)
      [] handler = "onTeamsMembersRemovedEvent" -> OnTeamsMembersRemovedEvent(members, teamInfo)

\* The activity handler routes an incoming activity to a registered handler.
\* Channel events carry their channel and team, a team event its team; a
\* members event carries the team only inside a team.
Dispatch(h, ch, team, m) ==
    /\ unit = "bot"
    /\ botPc \in {"idle", "done", "threw"}
    /\ handler' = h
    /\ channelInfo' = ch
    /\ teamInfo' = team
    /\ members' = m
    /\ botPc' = "running"
    /\ botTrace' = <<>>
    /\ botError' = "none"
    /\ BotFrame

DispatchSome ==
    \/ Dispatch("onMessage", NoObject(Undefined), NoObject(Undefined), <<>>)
    \/ \E h \in {"onTeamsChannelRenamedEvent", "onTeamsChannelCreatedEvent",
                 "onTeamsChannelDeletedEvent"} :
          Dispatch(h, Object("general"), Object("Team A"), <<>>)
    \/ Dispatch("onTeamsTeamRenamedEvent", NoObject(Undefined), Object("Team A"), <<>>)
    \/ \E h \in MemberHandlers, m \in MemberLists,
          team \in {NoObject(Undefined), NoObject(Null), Object("Team A")} :
          Dispatch(h, NoObject(Undefined), team, m)

\* the handler builds its activity and calls context.sendActivity; a throw
\* while building rejects the handler's promise before anything is sent
HandlerSend ==
    /\ unit = "bot"
    /\ botPc = "running"
    /\ IF BuiltActivity.error # "none"
       THEN /\ botPc' = "threw"
            /\ botError' = BuiltActivity.error
            /\ UNCHANGED botTrace
       ELSE /\ botPc' = "awaitSend"
            /\ botTrace' = Append(botTrace, [ev |-> "send", activity |-> BuiltActivity])
            /\ UNCHANGED botError
    /\ UNCHANGED <<handler, channelInfo, teamInfo, members>>
    /\ BotFrame

\* the send completed: await next()
HandlerNext ==
    /\ unit = "bot"
    /\ botPc = "awaitSend"
    /\ botPc' = "awaitNext"
    /\ botTrace' = Append(botTrace, [ev |-> "next", activity |-> NoActivity])
    /\ UNCHANGED <<handler, channelInfo, teamInfo, members, botError>>
    /\ BotFrame

\* next() completed: the handler returns
HandlerReturn ==
    /\ unit = "bot"
    /\ botPc = "awaitNext"
    /\ botPc' = "done"
    /\ UNCHANGED <<handler, channelInfo, teamInfo, members, botTrace, botError>>
    /\ BotFrame

---------------------------------------------------------------------------
(***************************************************************************)
(* ConfirmPrompt (dialog.ts 174-240)                                       *)
(***************************************************************************)
MaxPrompts == 2

Locales == {"*", "es"}
NoChoices == <<>>
ChoicePairs == {<<"yes", "no">>, <<"si", "no">>}

\* line 197: static choices = { '*': ['yes', 'no'] }
DefaultChoices == [l \in Locales |-> IF l = "*" THEN <<"yes", "no">> ELSE NoChoices]

ListStyles == {"auto", "list"}

\* PromptOptions.prompt / retryPrompt: absent, an empty string or a text
PromptValues == {Undefined, "''", "'prompt'"}
RetryPromptValues == {Undefined, "''", "'retry'"}
PromptOptions ==
    [prompt : PromptValues, speak : {"'speak'"},
     retryPrompt : RetryPromptValues, retrySpeak : {"'retrySpeak'"}]

NoCall == [op |-> "none", instance |-> 0, isRetry |-> FALSE,
           options |-> [prompt |-> Undefined, speak |-> Undefined,
                        retryPrompt |-> Undefined, retrySpeak |-> Undefined]]

\* the reference a new instance's recognizer gets for its choices:
\* a private copy of the table instead of the table itself
ConstructedChoicesCopy(heap, ref) == Len(heap) + 1

\* line 207: this.prompt.choices = ConfirmPrompt.choices (the reference)
ConstructedChoices(heap, ref) == ref

\* the heap after the constructor: a table is added only when the reference
\* handed out is a new one
HeapAfterConstruct(heap, ref, new) ==
    IF new \in 1..Len(heap) THEN heap ELSE Append(heap, heap[ref])

\* lines 204-208
ConstructConfirmPrompt ==
    /\ unit = "confirmPrompt"
    /\ Len(confirmPrompts) < MaxPrompts
    /\ LET ref == ConstructedChoices(tables, choices)
       IN  /\ tables' = HeapAfterConstruct(tables, choices, ref)
           /\ confirmPrompts' = Append(confirmPrompts,
                  [choices |-> ref, style |-> "auto", includeNumbers |-> FALSE])
    /\ promptCall' = NoCall
    /\ promptOut' = <<>>
    /\ UNCHANGED choices
    /\ PromptFrame

\* lines 185-191: ConfirmPrompt.choices[locale] = pair, an update in place
SetChoices(locale, pair) ==
    /\ unit = "confirmPrompt"
    /\ tables' = [tables EXCEPT ![choices][locale] = pair]
    /\ promptCall' = NoCall
    /\ promptOut' = <<>>
    /\ UNCHANGED <<choices, confirmPrompts>>
    /\ PromptFrame

\* lines 215-218: Object.assign(this.prompt.choiceOptions, options)
ChoiceOptions(i, includeNumbers) ==
    /\ unit = "confirmPrompt"
    /\ confirmPrompts' = [confirmPrompts EXCEPT ![i].includeNumbers = includeNumbers]
    /\ promptCall' = NoCall
    /\ promptOut' = <<>>
    /\ UNCHANGED <<choices, tables>>
    /\ PromptFrame

\* lines 224-227: this.prompt.style = listStyle
Style(i, listStyle) ==
    /\ unit = "confirmPrompt"
    /\ confirmPrompts' = [confirmPrompts EXCEPT ![i].style = listStyle]
    /\ promptCall' = NoCall
    /\ promptOut' = <<>>
    /\ UNCHANGED <<choices, tables>>
    /\ PromptFrame

\* this.prompt.prompt(context, prompt, speak): one rendered prompt
Rendered(which, text, speak) == [which |-> which, text |-> text, speak |-> speak]

\* onPrompt with the retry test reduced to the presence of a retry prompt
OnPromptRendersIgnoringIsRetry(options, isRetry) ==
    IF Truthy(options.retryPrompt)
    THEN <<Rendered("retry", options.retryPrompt, options.retrySpeak)>>
    ELSE IF Truthy(options.prompt)
         THEN <<Rendered("original", options.prompt, options.speak)>>
         ELSE <<>>

\* lines 229-235: what onPrompt renders
OnPromptRenders(options, isRetry) ==
    IF isRetry /\ Truthy(options.retryPrompt)
    THEN <<Rendered("retry", options.retryPrompt, options.retrySpeak)>>
    ELSE IF Truthy(options.prompt)
         THEN <<Rendered("original", options.prompt, options.speak)>>
         ELSE <<>>

OnPrompt(i, options, isRetry) ==
    /\ unit = "confirmPrompt"
    /\ promptCall' = [op |-> "onPrompt", instance |-> i, isRetry |-> isRetry,
                      options |-> options]
    /\ promptOut' = OnPromptRenders(options, isRetry)
    /\ UNCHANGED <<choices, tables, confirmPrompts>>
    /\ PromptFrame

\* lines 237-239: recognition is the recognizer's; nothing is rendered
OnRecognize(i, options) ==
    /\ unit = "confirmPrompt"
    /\ promptCall' = [op |-> "onRecognize", instance |-> i, isRetry |-> FALSE,
                      options |-> options]
    /\ promptOut' = <<>>
    /\ UNCHANGED <<choices, tables, confirmPrompts>>
    /\ PromptFrame

---------------------------------------------------------------------------
(***************************************************************************)
(* Dialog, DialogInstance, DialogTurnResult, DialogEndReason               *)
(* (dialog.ts 15-105)                                                      *)
(***************************************************************************)
MaxDepth == 3

\* lines 23-29: a TypeScript enum numbers its members from 0
completed == 0
cancelledSameTag == completed
cancelled == 1

\* lines 37-46
DialogTurnResult(hasActive, hasResult, result) ==
    [hasActive |-> hasActive, hasResult |-> hasResult, result |-> result]

EndOfTurnWithResult == DialogTurnResult(TRUE, TRUE, Undefined)

\* line 56: static EndOfTurn = { hasActive: true, hasResult: false }
EndOfTurnLiteral == DialogTurnResult(TRUE, FALSE, Undefined)

\* lines 15-21
DialogInstance(id) == [id |-> id, state |-> "{}"]

(***************************************************************************)
(* The dialogs of the conversation's DialogSet.  dialogBegin is mandatory; *)
(* each optional method is absent or has one of these bodies:              *)
(*   dialogContinue  "wait"     return Dialog.EndOfTurn                    *)
(*                   "end"      return dc.end()                            *)
(*                   "endWith"  return dc.end(reply)                       *)
(*   dialogResume    "wait"     return Dialog.EndOfTurn                    *)
(*                   "forward"  return dc.end(result)                      *)
(***************************************************************************)
DialogIds == {"plain", "ender", "asker", "waiter"}

DialogSet ==
    [id \in DialogIds |->
        CASE id = "plain" ->
               [continue |-> "absent", resume |-> "absent", end |-> TRUE, reprompt |-> FALSE]
          [] id = "ender" ->
               [continue |-> "end", resume |-> "forward", end |-> TRUE, reprompt |-> TRUE]
          [] id = "asker" ->
               [continue |-> "endWith", resume |-> "wait", end |-> FALSE, reprompt |-> TRUE]
          [] id = "waiter" ->
               [continue |-> "wait", resume |-> "wait", end |-> TRUE, reprompt |-> FALSE]]

HasContinueAlways(ds, id) == TRUE
HasResumeAlways(ds, id) == TRUE

\* line 76: dialogContinue?  line 89: dialogResume?
\* line 96: dialogReprompt?  line 104: dialogEnd?
HasContinue(ds, id) == ds[id].continue # "absent"
HasResume(ds, id) == ds[id].resume # "absent"
HasReprompt(ds, id) == ds[id].reprompt
HasEnd(ds, id) == ds[id].end

(***************************************************************************)
(* The stack manager (DialogContext).  Each operation yields an outcome:   *)
(* the stack it leaves, the turn result it returns, the dialogEnd          *)
(* notifications and the other method invocations it made, and its error.  *)
(***************************************************************************)
Outcome(st, result, e, inv, err) ==
    [stack |-> st, result |-> result, ended |-> e, invoked |-> inv, error |-> err]

Invocation(method, pos, id, arg) ==
    [method |-> method, pos |-> pos, id |-> id, arg |-> arg]

EndNotice(pos, id, reason) == [pos |-> pos, id |-> id, reason |-> reason]

\* calling a method the dialog does not define
Threw(st, e, inv) ==
    Outcome(st, DialogTurnResult(st # <<>>, FALSE, Undefined), e, inv, TypeError)

\* dc.end(result): notify and pop the active instance, then resume the one
\* below it; a parent that defines no dialogResume is ended in turn, with
\* the same result
RECURSIVE DcEnd(_, _, _, _, _)
DcEnd(ds, st, result, e, inv) ==
    LET top == Len(st)
        popped == IF top = 0 THEN st ELSE SubSeq(st, 1, top - 1)
        e1 == IF top > 0 /\ HasEnd(ds, st[top].id)
              THEN Append(e, EndNotice(top, st[top].id, completed))
              ELSE e
        below == Len(popped)
    IN  IF below = 0
        THEN Outcome(popped, DialogTurnResult(FALSE, TRUE, result), e1, inv, "none")
        ELSE IF HasResume(ds, popped[below].id)
             THEN LET inv1 == Append(inv, Invocation("dialogResume", below,
                                                     popped[below].id, result))
                      body == ds[popped[below].id].resume
                  IN  CASE body = "wait" -> Outcome(popped, EndOfTurn, e1, inv1, "none")
                        [] body = "forward" -> DcEnd(ds, popped, result, e1, inv1)
                        [] OTHER -> Threw(popped, e1, inv)
             ELSE DcEnd(ds, popped, result, e1, inv)

\* dc.continue(): hand the reply to the active dialog; a dialog that
\* defines no dialogContinue is ended
DcContinue(ds, st, reply) ==
    IF st = <<>>
    THEN Outcome(st, DialogTurnResult(FALSE, FALSE, Undefined), <<>>, <<>>, "none")
    ELSE LET top == Len(st)
             id == st[top].id
         IN  IF HasContinue(ds, id)
             THEN LET inv == <<Invocation("dialogContinue", top, id, reply)>>
                      body == ds[id].continue
                  IN  CASE body = "wait" -> Outcome(st, EndOfTurn, <<>>, inv, "none")
                        [] body = "end" -> DcEnd(ds, st, Undefined, <<>>, inv)
                        [] body = "endWith" -> DcEnd(ds, st, reply, <<>>, inv)
                        [] OTHER -> Threw(st, <<>>, <<>>)
             ELSE DcEnd(ds, st, Undefined, <<>>, <<>>)

\* dc.begin(id, args): push a new instance and call its dialogBegin, which
\* prompts and waits for the reply
DcBegin(ds, st, id, dialogArgs) ==
    LET pushed == Append(st, DialogInstance(id))
    IN  Outcome(pushed, EndOfTurn, <<>>,
                <<Invocation("dialogBegin", Len(pushed), id, dialogArgs)>>, "none")

\* dc.cancelAll(): end every instance, the active one first
RECURSIVE DcCancelAll(_, _, _)
DcCancelAll(ds, st, e) ==
    IF st = <<>>
    THEN Outcome(st, DialogTurnResult(FALSE, FALSE, Undefined), e, <<>>, "none")
    ELSE LET top == Len(st)
             e1 == IF HasEnd(ds, st[top].id)
                   THEN Append(e, EndNotice(top, st[top].id, cancelled))
                   ELSE e
         IN  DcCancelAll(ds, SubSeq(st, 1, top - 1), e1)

\* dc.reprompt(): ask the active dialog to prompt again
DcReprompt(ds, st) ==
    LET top == Len(st)
        inv == IF top > 0 /\ HasReprompt(ds, st[top].id)
               THEN <<Invocation("dialogReprompt", top, st[top].id, Undefined)>>
               ELSE <<>>
    IN  Outcome(st, DialogTurnResult(st # <<>>, FALSE, Undefined), <<>>, inv, "none")

Op(name, before, value) == [op |-> name, before |-> before, value |-> value]

Apply(op, out) ==
    /\ unit = "dialogs"
    /\ dcOp' = op
    /\ stack' = out.stack
    /\ turnResult' = out.result
    /\ ended' = out.ended
    /\ invoked' = out.invoked
    /\ dcError' = out.error
    /\ DialogFrame

Begin(id, dialogArgs) ==
    /\ Len(stack) < MaxDepth
    /\ Apply(Op("begin", stack, dialogArgs), DcBegin(DialogSet, stack, id, dialogArgs))

Continue(reply) ==
    Apply(Op("continue", stack, reply), DcContinue(DialogSet, stack, reply))

CancelAll ==
    Apply(Op("cancelAll", stack, Undefined), DcCancelAll(DialogSet, stack, <<>>))

Reprompt ==
    Apply(Op("reprompt", stack, Undefined), DcReprompt(DialogSet, stack))

---------------------------------------------------------------------------
Units == {"dialogs", "confirmPrompt", "bot", "exists"}

Init ==
    /\ unit \in Units
    /\ EndOfTurn = EndOfTurnLiteral
    /\ args \in (IF unit = "exists" THEN ArgLists ELSE {<<>>})
    /\ existsCalled = FALSE
    /\ existsResult = FALSE
    /\ handler = "none"
    /\ channelInfo = NoObject(Undefined)
    /\ teamInfo = NoObject(Undefined)
    /\ members = <<>>
    /\ botPc = "idle"
    /\ botTrace = <<>>
    /\ botError = "none"
    /\ choices = 1
    /\ tables = <<DefaultChoices>>
    /\ confirmPrompts = <<>>
    /\ promptCall = NoCall
    /\ promptOut = <<>>
    /\ stack = <<>>
    /\ turnResult = DialogTurnResult(FALSE, FALSE, Undefined)
    /\ dcOp = Op("none", <<>>, Undefined)
    /\ ended = <<>>
    /\ invoked = <<>>
    /\ dcError = "none"

Next ==
    \/ EvaluateExists
    \/ NextExpression
    \/ DispatchSome
    \/ HandlerSend
    \/ HandlerNext
    \/ HandlerReturn
    \/ ConstructConfirmPrompt
    \/ \E l \in Locales, pair \in ChoicePairs : SetChoices(l, pair)
    \/ \E i \in 1..Len(confirmPrompts), b \in BOOLEAN : ChoiceOptions(i, b)
    \/ \E i \in 1..Len(confirmPrompts), ls \in ListStyles : Style(i, ls)
    \/ \E i \in 1..Len(confirmPrompts), o \in PromptOptions, r \in BOOLEAN :
          OnPrompt(i, o, r)
    \/ \E i \in 1..Len(confirmPrompts), o \in PromptOptions : OnRecognize(i, o)
    \/ \E id \in DialogIds : Begin(id, Undefined)
    \/ \E reply \in JsValues : Continue(reply)
    \/ CancelAll
    \/ Reprompt

Spec == Init /\ [][Next]_vars

---------------------------------------------------------------------------
(***************************************************************************)
(* Properties                                                              *)
(***************************************************************************)

\* C1: in every reachable state the shared sentinel Dialog.EndOfTurn has
\* hasActive = true, hasResult = false and no result other than undefined.
EndOfTurnIsSentinel ==
    /\ EndOfTurn.hasActive = TRUE
    /\ EndOfTurn.hasResult = FALSE
    /\ EndOfTurn.result = Undefined

\* a dialog returned the sentinel from dialogContinue on a full stack
EndOfTurnReturned ==
    /\ dcOp.op = "continue"
    /\ Len(stack) = MaxDepth
    /\ turnResult = EndOfTurn

BeforeTop == dcOp.before[Len(dcOp.before)].id
BeforeParent == dcOp.before[Len(dcOp.before) - 1].id

\* C2: a new turn for an active dialog that defines no dialogContinue ends
\* that dialog without invoking dialogContinue, and leaves the same stack,
\* turn result and end notifications as a dialog whose dialogContinue is
\* "return dc.end()".
AutoEndEquivalence ==
    (/\ dcOp.op = "continue"
     /\ dcOp.before # <<>>
     /\ DialogSet[BeforeTop].continue = "absent")
    =>
    LET st == dcOp.before
        twin == DcContinue([DialogSet EXCEPT ![BeforeTop].continue = "end"],
                           st, dcOp.value)
    IN  /\ dcError = "none"
        /\ \A i \in 1..Len(invoked) : invoked[i].method # "dialogContinue"
        /\ Len(stack) < Len(st)
        /\ stack = SubSeq(st, 1, Len(stack))
        /\ stack = twin.stack
        /\ turnResult = twin.result
        /\ ended = twin.ended
        /\ twin.error = "none"
        /\ twin.invoked =
              <<Invocation("dialogContinue", Len(st), BeforeTop, dcOp.value)>> \o invoked

\* a dialog without dialogContinue was auto-ended and its parent resumed
AutoEnded ==
    /\ dcOp.op = "continue"
    /\ Len(dcOp.before) = 2
    /\ dcOp.before[1].id = "waiter"
    /\ dcOp.before[2].id = "plain"
    /\ stack = <<DialogInstance("waiter")>>
    /\ turnResult = EndOfTurn

\* the value the child on top of dcOp.before ends with
ChildResult ==
    IF DialogSet[BeforeTop].continue = "endWith" THEN dcOp.value ELSE Undefined

\* C3: when a child ends with V above a parent that defines no
\* dialogResume, the parent is removed without being resumed, exactly V
\* reaches the parent's parent (or the turn result when there is none),
\* and the stack, turn result, end notifications and the invocations of
\* other dialogs are those of a parent whose dialogResume is
\* "return dc.end(result)".
ResultPassThrough ==
    (/\ dcOp.op = "continue"
     /\ Len(dcOp.before) >= 2
     /\ DialogSet[BeforeTop].continue # "wait"
     /\ DialogSet[BeforeParent].resume = "absent")
    =>
    LET st == dcOp.before
        gp == Len(st) - 2
        twin == DcContinue([DialogSet EXCEPT ![BeforeParent].resume = "forward"],
                           st, dcOp.value)
        NotParents(inv) == inv.method # "dialogResume" \/ inv.id # BeforeParent
    IN  /\ dcError = "none"
        /\ Len(stack) <= gp
        /\ \A i \in 1..Len(invoked) :
              ~(invoked[i].method = "dialogResume" /\ invoked[i].pos = gp + 1)
        /\ \A i \in 1..Len(invoked) :
              invoked[i].method = "dialogResume" => invoked[i].arg = ChildResult
        /\ (stack = <<>>) => turnResult = DialogTurnResult(FALSE, TRUE, ChildResult)
        /\ (gp >= 1 /\ DialogSet[st[gp].id].resume # "absent") =>
              \E i \in 1..Len(invoked) :
                 invoked[i] = Invocation("dialogResume", gp, st[gp].id, ChildResult)
        /\ stack = twin.stack
        /\ turnResult = twin.result
        /\ ended = twin.ended
        /\ twin.error = "none"
        /\ invoked = SelectSeq(twin.invoked, NotParents)

\* a falsy, defined value passed through a parent without dialogResume to a
\* waiting grandparent
PassedThrough ==
    /\ dcOp.op = "continue"
    /\ dcOp.value = "0"
    /\ dcOp.before = <<DialogInstance("waiter"), DialogInstance("plain"),
                       DialogInstance("asker")>>
    /\ stack = <<DialogInstance("waiter")>>
    /\ \E i \in 1..Len(invoked) :
          invoked[i] = Invocation("dialogResume", 1, "waiter", "0")

\* C4: completed and cancelled are distinct tags, and cancelling the whole
\* stack empties it and delivers to every instance whose dialog defines
\* dialogEnd exactly one notification, with reason cancelled and never
\* completed, innermost instance first.
CancelDeliversCancelled ==
    /\ completed # cancelled
    /\ (dcOp.op = "cancelAll") =>
          LET st == dcOp.before
          IN  /\ stack = <<>>
              /\ \A p \in 1..Len(st) :
                    Cardinality({i \in 1..Len(ended) : ended[i].pos = p})
                      = IF DialogSet[st[p].id].end THEN 1 ELSE 0
              /\ \A i \in 1..Len(ended) :
                    /\ ended[i].pos \in 1..Len(st)
                    /\ ended[i].id = st[ended[i].pos].id
                    /\ ended[i].reason = cancelled
                    /\ ended[i].reason # completed
              /\ \A i, j \in 1..Len(ended) : i < j => ended[i].pos > ended[j].pos

\* a full stack was cancelled and several instances were notified
CancelledFullStack ==
    /\ dcOp.op = "cancelAll"
    /\ Len(dcOp.before) = MaxDepth
    /\ Len(ended) >= 2
    /\ \E p \in 1..Len(dcOp.before) : ~DialogSet[dcOp.before[p].id].end

Supplied(v) == v # Undefined
RetryRendered == \E i \in 1..Len(promptOut) : promptOut[i].which = "retry"

\* C5 as stated: a first prompt renders the original prompt; a retry
\* renders the retry prompt if one was supplied, else the original prompt;
\* at most one prompt per call; no retry prompt when isRetry is false.
OnPromptAsStated ==
    (promptCall.op = "onPrompt") =>
    LET o == promptCall.options
        original == <<Rendered("original", o.prompt, o.speak)>>
        retry == <<Rendered("retry", o.retryPrompt, o.retrySpeak)>>
    IN  /\ ~promptCall.isRetry => promptOut = original
        /\ (promptCall.isRetry /\ Supplied(o.retryPrompt)) => promptOut = retry
        /\ (promptCall.isRetry /\ ~Supplied(o.retryPrompt)) => promptOut = original
        /\ Len(promptOut) <= 1
        /\ ~promptCall.isRetry => ~RetryRendered

NonEmpty(v) == v \notin {Undefined, "''"}

\* C5 (amended): onPrompt renders the retry prompt when isRetry is true and
\* a non-empty retry prompt was supplied; otherwise it renders the original
\* prompt when a non-empty one was supplied, and nothing when it was not;
\* at most one prompt per call; no retry prompt when isRetry is false.
OnPromptRendersNonEmpty ==
    (promptCall.op = "onPrompt") =>
    LET o == promptCall.options
        original == <<Rendered("original", o.prompt, o.speak)>>
        retry == <<Rendered("retry", o.retryPrompt, o.retrySpeak)>>
        useRetry == promptCall.isRetry /\ NonEmpty(o.retryPrompt)
    IN  /\ useRetry => promptOut = retry
        /\ (~useRetry /\ NonEmpty(o.prompt)) => promptOut = original
        /\ (~useRetry /\ ~NonEmpty(o.prompt)) => promptOut = <<>>
        /\ Len(promptOut) <= 1
        /\ ~promptCall.isRetry => ~RetryRendered

\* a first prompt with a retry prompt at hand rendered the original one
FirstPromptRendered ==
    /\ promptCall.op = "onPrompt"
    /\ ~promptCall.isRetry
    /\ promptCall.options.retryPrompt = "'retry'"
    /\ promptOut = <<Rendered("original", "'prompt'", "'speak'")>>

ExistsIsTruthiness ==
    existsCalled => (existsResult = Truthy(ArgAt0(args)))

Finished == botPc \in {"done", "threw"}

\* C8: an invocation of any of the seven handlers sends exactly one
\* activity and then calls next() exactly once, the send first.
HandlerSendsThenNext ==
    /\ \A i \in 1..Len(botTrace) :
          botTrace[i].ev = "next" => (i = 2 /\ botTrace[1].ev = "send")
    /\ Finished =>
          /\ Len(botTrace) = 2
          /\ botTrace[1].ev = "send"
          /\ botTrace[2].ev = "next"

\* C9: with teamInfo absent, the members-added and the members-removed
\* handler raise no error, send one card naming the team 'not in team',
\* then call next().
AbsentTeamHandled ==
    (handler \in MemberHandlers /\ Absent(teamInfo) /\ Finished) =>
      /\ botError = "none"
      /\ botPc = "done"
      /\ Len(botTrace) = 2
      /\ botTrace[1].ev = "send"
      /\ \E k \in 1..Len(botTrace[1].activity.text) :
            botTrace[1].activity.text[k] = "not in team"
      /\ botTrace[2].ev = "next"

\* C10: every ConfirmPrompt instance refers to the table ConfirmPrompt.choices
\* refers to, so it sees every entry of it, and no other table exists.
ChoicesShared ==
    /\ Len(tables) = 1
    /\ \A i \in 1..Len(confirmPrompts) :
          /\ confirmPrompts[i].choices = choices
          /\ \A l \in Locales : tables[confirmPrompts[i].choices][l] = tables[choices][l]

\* the table was changed for both locale keys while every instance existed
ChoicesChangedForAll ==
    /\ Len(confirmPrompts) = MaxPrompts
    /\ tables[choices]["*"] = <<"si", "no">>
    /\ tables[choices]["es"] = <<"si", "no">>

====
